---- MODULE Spec2Model ----
(***************************************************************************)
(* Model of src/lib.rs (module mentions_hashtags): parse_mentions,         *)
(* parse_hashtags and parse_mentions_hashtags.                             *)
(*                                                                         *)
(* A text is a sequence of characters; a character is its Unicode scalar   *)
(* value, so that the ranges of the regex character class are the ranges   *)
(* of the pattern literal:  '@' = 64, '#' = 35, 'A'..'Z' = 65..90,          *)
(* 'a'..'z' = 97..122, '0'..'9' = 48..57, '_' = 95, '-' = 45, '.' = 46,     *)
(* ' ' = 32, U+017F (LATIN SMALL LETTER LONG S) = 383,                     *)
(* U+212A (KELVIN SIGN) = 8490.                                            *)
(***************************************************************************)
EXTENDS Integers, Sequences, FiniteSets, TLC

\* Longest input text of Spec.
MaxLen == 5

\* Longest input text of SpecFault.
MaxLenFault == 4

\* The characters input texts are drawn from:
\* '@', '#', 'a', 'A', '.', ' ' and U+017F.
Alphabet == {64, 35, 97, 65, 46, 32, 383}

Range(s) == {s[i] : i \in DOMAIN s}

Texts(n) == UNION {[1..k -> Alphabet] : k \in 0..n}

(***************************************************************************)
(* The regex crate.                                                        *)
(***************************************************************************)

\* The class [a-zA-Z0-9_\-.] as written in both patterns.
ExplicitClass == (97..122) \cup (65..90) \cup (48..57) \cup {95, 45, 46}

\* The ASCII letters.
AsciiUpper == 65..90
AsciiLower == 97..122

\* (?i) in the crate's default Unicode mode: a set of characters is closed
\* under Unicode simple case folding.  Among the characters that fold to an
\* ASCII letter are, besides the letter of the other case, U+017F (to 's')
\* and U+212A (to 'k'); '@', '#', digits, '_', '-', '.' have no case variants.
CaseFoldSimple(S) ==
    S \cup {c + 32 : c \in S \cap AsciiUpper}
      \cup {c - 32 : c \in S \cap AsciiLower}
      \cup (IF S \cap {115, 83, 383} # {} THEN {115, 83, 383} ELSE {})
      \cup (IF S \cap {107, 75, 8490} # {} THEN {107, 75, 8490} ELSE {})

\* Regex::new(r"(?i)@[a-zA-Z0-9_\-.]+"): a literal, then one or more of a class.
MentionsRegex ==
    [literal |-> CaseFoldSimple({64}), class |-> CaseFoldSimple(ExplicitClass)]

\* Mutant of HashtagsRegex: the class written without '.'.
HashtagsRegex_NoDot ==
    [literal |-> CaseFoldSimple({35}),
     class |-> CaseFoldSimple(ExplicitClass \ {46})]

\* Regex::new(r"(?i)#[a-zA-Z0-9_\-.]+")
HashtagsRegex ==
    [literal |-> CaseFoldSimple({35}), class |-> CaseFoldSimple(ExplicitClass)]

\* The greedy '+': the last index of the run of class characters that
\* starts right after index j (j itself when the run is empty).
RECURSIVE RunEnd(_, _, _)
RunEnd(class, text, j) ==
    IF j + 1 <= Len(text) /\ text[j + 1] \in class
    THEN RunEnd(class, text, j + 1)
    ELSE j

\* Regex::find_iter: the successive non-overlapping matches, leftmost first;
\* a search that fails at i is retried at i + 1, one that succeeds resumes
\* after the match.
RECURSIVE FindFrom(_, _, _)
FindFrom(re, text, i) ==
    IF i > Len(text) THEN <<>>
    ELSE LET end == RunEnd(re.class, text, i)
         IN  IF text[i] \in re.literal /\ end > i
             THEN <<[start |-> i, end |-> end]>> \o FindFrom(re, text, end + 1)
             ELSE FindFrom(re, text, i + 1)

FindIter(re, text) == FindFrom(re, text, 1)

\* Mutant of AsStr: the body of the match without its marker.
AsStr_BodyOnly(text, m) == SubSeq(text, m.start + 1, m.end)

\* |m| m.as_str().to_string()
AsStr(text, m) == SubSeq(text, m.start, m.end)

\* .map(|m| m.as_str().to_string()) over find_iter
MatchStrings(re, text) ==
    LET matches == FindIter(re, text)
    IN  [k \in DOMAIN matches |-> AsStr(text, matches[k])]

\* .collect() into a HashSet<String>
CollectHashSet(strs) == Range(strs)

\* unique.into_iter().collect() into a Vec<String>: the elements of the set,
\* each once, in the iteration order of the HashSet, which is unspecified.
IntoVec(S) == {v \in [1..Cardinality(S) -> S] : Range(v) = S}

\* Mutant of UniqueVec: the matches collected into the Vec directly.
UniqueVec_NoHashSet(strs) == {strs}

\* The matches through the HashSet into the Vec: every order it may have.
UniqueVec(strs) == IntoVec(CollectHashSet(strs))

(***************************************************************************)
(* Results.                                                                *)
(***************************************************************************)

\* MentionsHashtags::default()
Default == [mentions |-> <<>>, hashtags |-> <<>>]

NoRet == [kind |-> "None", vec |-> <<>>, rec |-> Default, err |-> "none"]
OkVec(v) == [kind |-> "Ok", vec |-> v, rec |-> Default, err |-> "none"]
OkRec(r) == [kind |-> "Ok", vec |-> <<>>, rec |-> r, err |-> "none"]
Err(e) == [kind |-> "Err", vec |-> <<>>, rec |-> Default, err |-> e]

\* Mutant of Extract: a text without a match is reported as an error.
Extract_ErrOnNoMatch(re, name, text, fails) ==
    IF name \in fails \/ MatchStrings(re, text) = <<>>
    THEN {Err(name)}
    ELSE {OkVec(v) : v \in UniqueVec(MatchStrings(re, text))}

\* The outcomes of an extractor: Regex::new(..)? returns the error at once;
\* otherwise Ok with the matches, deduplicated, in some order.
Extract(re, name, text, fails) ==
    IF name \in fails
    THEN {Err(name)}
    ELSE {OkVec(v) : v \in UniqueVec(MatchStrings(re, text))}

parse_mentions(text, fails) == Extract(MentionsRegex, "mentions", text, fails)

parse_hashtags(text, fails) == Extract(HashtagsRegex, "hashtags", text, fails)

(***************************************************************************)
(* State.                                                                  *)
(***************************************************************************)
VARIABLES
    description,        \* the input text
    regexFails,         \* the passes whose Regex::new returns Err
    fn,                 \* the public function called
    mentions,           \* argument `mentions` of parse_mentions_hashtags
    hashtags,           \* argument `hashtags` of parse_mentions_hashtags
    pc,                 \* position in the call
    mentions_hashtags,  \* local of parse_mentions_hashtags
    calls,              \* the extractors invoked so far, in order
    ret                 \* the value returned

vars == <<description, regexFails, fn, mentions, hashtags, pc,
          mentions_hashtags, calls, ret>>

InitWith(texts, failsets) ==
    /\ description \in texts
    /\ regexFails \in failsets
    /\ fn = "none"
    /\ mentions = FALSE
    /\ hashtags = FALSE
    /\ pc = "idle"
    /\ mentions_hashtags = Default
    /\ calls = <<>>
    /\ ret = NoRet

\* Both patterns are valid literals: Regex::new never returns Err.
Init == InitWith(Texts(MaxLen), {{}})

\* Regex::new of either pattern may return Err.
InitFault == InitWith(Texts(MaxLenFault), SUBSET {"mentions", "hashtags"})

\* A direct call of parse_mentions (lines 94-101).
CallParseMentions ==
    /\ pc = "idle"
    /\ fn' = "parse_mentions"
    /\ calls' = <<"mentions">>
    /\ ret' \in parse_mentions(description, regexFails)
    /\ pc' = "returned"
    /\ UNCHANGED <<description, regexFails, mentions, hashtags, mentions_hashtags>>

\* A direct call of parse_hashtags (lines 123-130).
CallParseHashtags ==
    /\ pc = "idle"
    /\ fn' = "parse_hashtags"
    /\ calls' = <<"hashtags">>
    /\ ret' \in parse_hashtags(description, regexFails)
    /\ pc' = "returned"
    /\ UNCHANGED <<description, regexFails, mentions, hashtags, mentions_hashtags>>

\* Mutant of PmhEnter: the early return taken when either flag is false.
PmhEnter_EitherFalse(m, h) ==
    /\ pc = "idle"
    /\ fn' = "parse_mentions_hashtags"
    /\ mentions' = m
    /\ hashtags' = h
    /\ mentions_hashtags' = Default
    /\ IF ~m \/ ~h
       THEN /\ ret' = OkRec(Default)
            /\ pc' = "returned"
       ELSE /\ ret' = ret
            /\ pc' = "pmh_mentions"
    /\ UNCHANGED <<description, regexFails, calls>>

\* parse_mentions_hashtags, lines 54-63: the default record and the early
\* return when neither flag is set.
PmhEnter(m, h) ==
    /\ pc = "idle"
    /\ fn' = "parse_mentions_hashtags"
    /\ mentions' = m
    /\ hashtags' = h
    /\ mentions_hashtags' = Default
    /\ IF ~m /\ ~h
       THEN /\ ret' = OkRec(Default)
            /\ pc' = "returned"
       ELSE /\ ret' = ret
            /\ pc' = "pmh_mentions"
    /\ UNCHANGED <<description, regexFails, calls>>

\* Mutant of PmhMentions: an error of the mention pass is swallowed and the
\* field left empty (unwrap_or_default instead of ?).
PmhMentions_SwallowErr ==
    /\ pc = "pmh_mentions"
    /\ IF mentions
       THEN \E r \in parse_mentions(description, regexFails) :
              /\ calls' = Append(calls, "mentions")
              /\ mentions_hashtags' =
                    [mentions_hashtags EXCEPT !.mentions = r.vec]
              /\ pc' = "pmh_hashtags"
              /\ UNCHANGED ret
       ELSE /\ pc' = "pmh_hashtags"
            /\ UNCHANGED <<mentions_hashtags, calls, ret>>
    /\ UNCHANGED <<description, regexFails, fn, mentions, hashtags>>

\* lines 64-66: if mentions { mentions_hashtags.mentions = parse_mentions(description)?; }
PmhMentions ==
    /\ pc = "pmh_mentions"
    /\ IF mentions
       THEN \E r \in parse_mentions(description, regexFails) :
              /\ calls' = Append(calls, "mentions")
              /\ IF r.kind = "Err"
                 THEN /\ ret' = r
                      /\ pc' = "returned"
                      /\ UNCHANGED mentions_hashtags
                 ELSE /\ mentions_hashtags' =
                            [mentions_hashtags EXCEPT !.mentions = r.vec]
                      /\ pc' = "pmh_hashtags"
                      /\ UNCHANGED ret
       ELSE /\ pc' = "pmh_hashtags"
            /\ UNCHANGED <<mentions_hashtags, calls, ret>>
    /\ UNCHANGED <<description, regexFails, fn, mentions, hashtags>>

\* lines 67-69: if hashtags { mentions_hashtags.hashtags = parse_hashtags(description)?; }
PmhHashtags ==
    /\ pc = "pmh_hashtags"
    /\ IF hashtags
       THEN \E r \in parse_hashtags(description, regexFails) :
              /\ calls' = Append(calls, "hashtags")
              /\ IF r.kind = "Err"
                 THEN /\ ret' = r
                      /\ pc' = "returned"
                      /\ UNCHANGED mentions_hashtags
                 ELSE /\ mentions_hashtags' =
                            [mentions_hashtags EXCEPT !.hashtags = r.vec]
                      /\ pc' = "pmh_return"
                      /\ UNCHANGED ret
       ELSE /\ pc' = "pmh_return"
            /\ UNCHANGED <<mentions_hashtags, calls, ret>>
    /\ UNCHANGED <<description, regexFails, fn, mentions, hashtags>>

\* line 71: Ok(mentions_hashtags)
PmhReturn ==
    /\ pc = "pmh_return"
    /\ ret' = OkRec(mentions_hashtags)
    /\ pc' = "returned"
    /\ UNCHANGED <<description, regexFails, fn, mentions, hashtags,
                   mentions_hashtags, calls>>

Next ==
    \/ CallParseMentions
    \/ CallParseHashtags
    \/ \E m \in BOOLEAN, h \in BOOLEAN : PmhEnter(m, h)
    \/ PmhMentions
    \/ PmhHashtags
    \/ PmhReturn

Spec == Init /\ [][Next]_vars

SpecFault == InitFault /\ [][Next]_vars

(***************************************************************************)
(* Vocabulary of the properties.                                           *)
(***************************************************************************)

\* The body class of the specification: A-Z, a-z, 0-9, '_', '-', '.'.
BodyClass == (65..90) \cup (97..122) \cup (48..57) \cup {95, 45, 46}

\* The tokens of a text for a marker: text[i..j] with text[i] the marker and
\* text[i+1..j] the longest run of body-class characters after it, non-empty.
RefTokens(text, marker) ==
    {SubSeq(text, i, j) : <<i, j>> \in
        {p \in (1..Len(text)) \X (1..Len(text)) :
            /\ text[p[1]] = marker
            /\ p[2] > p[1]
            /\ \A k \in (p[1] + 1)..p[2] : text[k] \in BodyClass
            /\ p[2] = Len(text) \/ text[p[2] + 1] \notin BodyClass}}

Returned(f) == pc = "returned" /\ fn = f

ReturnedOk(f) == Returned(f) /\ ret.kind = "Ok"

NoDup(v) == \A i, j \in DOMAIN v : i # j => v[i] # v[j]

Count(v, x) == Cardinality({i \in DOMAIN v : v[i] = x})

\* The two extractors: the function, its marker, its regex.
Extractors ==
    {[f |-> "parse_mentions", marker |-> 64, re |-> MentionsRegex],
     [f |-> "parse_hashtags", marker |-> 35, re |-> HashtagsRegex]}

\* The set an extractor returns for a text when its pattern compiles.
ResultSets(e, text) ==
    {Range(r.vec) : r \in
        IF e.f = "parse_mentions" THEN parse_mentions(text, {})
                                  ELSE parse_hashtags(text, {})}

\* s occurs in text at index i.
OccursAt(text, s, i) ==
    /\ i + Len(s) - 1 <= Len(text)
    /\ SubSeq(text, i, i + Len(s) - 1) = s

\* Case folding of a character and of a string.
FoldChar(c) ==
    IF c \in 65..90 THEN c + 32
    ELSE IF c = 383 THEN 115
    ELSE IF c = 8490 THEN 107
    ELSE c

FoldStr(s) == [i \in DOMAIN s |-> FoldChar(s[i])]

\* '@' and '#' exchanged.
SwapChar(c) == IF c = 64 THEN 35 ELSE IF c = 35 THEN 64 ELSE c

Swap(s) == [i \in DOMAIN s |-> SwapChar(s[i])]

\* Every occurrence of character c replaced by a space.
Blank(s, c) == [i \in DOMAIN s |-> IF s[i] = c THEN 32 ELSE s[i]]

\* The strings of v joined with single spaces.
RECURSIVE JoinSpaces(_)
JoinSpaces(v) ==
    IF v = <<>> THEN <<>>
    ELSE IF Len(v) = 1 THEN v[1]
    ELSE v[1] \o <<32>> \o JoinSpaces(Tail(v))

IsAscii(text) == \A i \in DOMAIN text : text[i] < 128

(***************************************************************************)
(* Properties.                                                             *)
(***************************************************************************)

\* C1: the set parse_mentions returns is the set of maximal tokens of the
\* text: '@' followed by the longest non-empty run of body-class characters,
\* verbatim, and nothing else.
C1_MentionsAreRefTokens ==
    ReturnedOk("parse_mentions") =>
        Range(ret.vec) = RefTokens(description, 64)

\* C1 restricted to ASCII text (holds).
C1_Ascii ==
    ReturnedOk("parse_mentions") /\ IsAscii(description) =>
        Range(ret.vec) = RefTokens(description, 64)

\* C2: every collection returned has no two equal strings, and a token
\* matched several times in the text appears exactly once.
C2_NoDuplicates ==
    (pc = "returned" /\ ret.kind = "Ok") =>
        /\ NoDup(ret.vec)
        /\ NoDup(ret.rec.mentions)
        /\ NoDup(ret.rec.hashtags)
        /\ \A e \in Extractors :
             \A s \in Range(MatchStrings(e.re, description)) :
                /\ fn = e.f => Count(ret.vec, s) = 1
                /\ (fn = "parse_mentions_hashtags" /\ e.f = "parse_mentions"
                      /\ mentions) => Count(ret.rec.mentions, s) = 1
                /\ (fn = "parse_mentions_hashtags" /\ e.f = "parse_hashtags"
                      /\ hashtags) => Count(ret.rec.hashtags, s) = 1

\* C2 witness: a text in which a mention is matched twice, both passes run.
C2_Witness ==
    /\ ReturnedOk("parse_mentions_hashtags")
    /\ mentions /\ hashtags
    /\ ~NoDup(MatchStrings(MentionsRegex, description))
    /\ ret.rec.mentions # <<>>

\* C3: the record's mentions field is, as a set, parse_mentions(text) when
\* the mentions flag is set and empty otherwise; likewise hashtags; with both
\* flags false both are empty and no extractor is invoked.
C3_FieldsFollowFlags ==
    ReturnedOk("parse_mentions_hashtags") =>
        /\ \A r \in parse_mentions(description, regexFails) :
              Range(ret.rec.mentions) = IF mentions THEN Range(r.vec) ELSE {}
        /\ \A r \in parse_hashtags(description, regexFails) :
              Range(ret.rec.hashtags) = IF hashtags THEN Range(r.vec) ELSE {}
        /\ (~mentions /\ ~hashtags) => ret.rec = Default /\ calls = <<>>

\* C3 witness: mentions only, on a text holding a mention and a hashtag.
C3_Witness ==
    /\ ReturnedOk("parse_mentions_hashtags")
    /\ mentions /\ ~hashtags
    /\ ret.rec.mentions # <<>>
    /\ ret.rec.hashtags = <<>>
    /\ MatchStrings(HashtagsRegex, description) # <<>>

\* C4: every string returned by an extractor is its marker followed only by
\* characters of the ASCII body class.
C4_OnlyBodyClass ==
    \A e \in Extractors :
        ReturnedOk(e.f) =>
            \A s \in Range(ret.vec) :
                /\ s[1] = e.marker
                /\ \A k \in 2..Len(s) : s[k] \in BodyClass

\* C4 restricted to ASCII text (holds).
C4_Ascii ==
    \A e \in Extractors :
        ReturnedOk(e.f) /\ IsAscii(description) =>
            \A s \in Range(ret.vec) :
                /\ s[1] = e.marker
                /\ \A k \in 2..Len(s) : s[k] \in BodyClass

\* C5: two tokens of the text that differ only in letter case are both in
\* the result, and every returned string occurs verbatim in the text.
C5_CaseDistinct ==
    \A e \in Extractors :
        ReturnedOk(e.f) =>
            /\ \A t1, t2 \in RefTokens(description, e.marker) :
                  (t1 # t2 /\ FoldStr(t1) = FoldStr(t2)) =>
                      (t1 \in Range(ret.vec) /\ t2 \in Range(ret.vec))
            /\ \A s \in Range(ret.vec) :
                  \E i \in 1..Len(description) : OccursAt(description, s, i)

\* C5 restricted to ASCII text (holds).
C5_Ascii ==
    \A e \in Extractors :
        ReturnedOk(e.f) /\ IsAscii(description) =>
            /\ \A t1, t2 \in RefTokens(description, e.marker) :
                  (t1 # t2 /\ FoldStr(t1) = FoldStr(t2)) =>
                      (t1 \in Range(ret.vec) /\ t2 \in Range(ret.vec))
            /\ \A s \in Range(ret.vec) :
                  \E i \in 1..Len(description) : OccursAt(description, s, i)

\* C6: parse_hashtags(t) is parse_mentions(swap(t)) with the markers swapped
\* back, and conversely; the result of a pass is the same when every marker
\* of the other pass is replaced by a space.
C6_HashtagsMirrorMentions ==
    /\ ReturnedOk("parse_hashtags") =>
          /\ \A r \in parse_mentions(Swap(description), regexFails) :
                Range(ret.vec) = {Swap(m) : m \in Range(r.vec)}
          /\ \A r \in parse_hashtags(Blank(description, 64), regexFails) :
                Range(ret.vec) = Range(r.vec)
    /\ ReturnedOk("parse_mentions") =>
          /\ \A r \in parse_hashtags(Swap(description), regexFails) :
                Range(ret.vec) = {Swap(m) : m \in Range(r.vec)}
          /\ \A r \in parse_mentions(Blank(description, 35), regexFails) :
                Range(ret.vec) = Range(r.vec)

\* C6 witness: parse_hashtags has returned a hashtag with a '.' in its body
\* from a text that also holds a mention.
C6_Witness ==
    /\ ReturnedOk("parse_hashtags")
    /\ \E s \in Range(ret.vec) : 46 \in Range(s)
    /\ MatchStrings(MentionsRegex, description) # <<>>

\* C7: a text without '@' gives parse_mentions an empty Ok result, a text
\* without '#' gives parse_hashtags an empty Ok result, and the empty text
\* gives every function, under every flag combination, an empty Ok result.
C7_NoMarkerNoToken ==
    /\ (Returned("parse_mentions") /\ 64 \notin Range(description)) =>
          ret = OkVec(<<>>)
    /\ (Returned("parse_hashtags") /\ 35 \notin Range(description)) =>
          ret = OkVec(<<>>)
    /\ (Returned("parse_mentions_hashtags") /\ description = <<>>) =>
          ret = OkRec(Default)

\* C7 witness: parse_mentions has returned for a non-empty text without '@'.
C7_Witness ==
    /\ Returned("parse_mentions")
    /\ description # <<>>
    /\ 64 \notin Range(description)
    /\ 35 \in Range(description)
    /\ ret = OkVec(<<>>)

\* C8: a marker yields a token exactly when the character right after it is
\* a body-class character; no returned string has length 1; k >= 1 markers
\* followed by a non-empty body run yield exactly the last marker with the run.
C8_MarkerNeedsBody ==
    \A e \in Extractors :
        ReturnedOk(e.f) =>
            /\ \A s \in Range(ret.vec) : Len(s) >= 2
            /\ \A i \in 1..Len(description) :
                  description[i] = e.marker =>
                     ((i + 1 <= Len(description)
                         /\ description[i + 1] \in BodyClass)
                      <=> \E s \in Range(ret.vec) :
                             /\ OccursAt(description, s, i)
                             /\ \/ i + Len(s) > Len(description)
                                \/ description[i + Len(s)] \notin BodyClass)
            /\ \A k \in 1..(Len(description) - 1) :
                  ((\A i \in 1..k : description[i] = e.marker)
                     /\ \A i \in (k + 1)..Len(description) :
                           description[i] \in BodyClass)
                  => Range(ret.vec) =
                        {SubSeq(description, k, Len(description))}

\* C8 restricted to ASCII text (holds).
C8_Ascii ==
    IsAscii(description) => C8_MarkerNeedsBody

\* C9: parse_mentions_hashtags has no partial success.  A requested pass
\* that fails makes the call return that error and no record; the mention
\* pass runs first, so when it fails the hashtag pass is not run, and when the
\* hashtag pass fails the mentions already computed are dropped; no pass is
\* run twice; an Ok result means no requested pass failed; a pass whose flag
\* is false is not run and cannot fail the call.
C9_NoPartialSuccess ==
    LET mFail == mentions /\ "mentions" \in regexFails
        hFail == hashtags /\ "hashtags" \in regexFails
        requested == (IF mentions THEN <<"mentions">> ELSE <<>>)
                     \o (IF hashtags THEN <<"hashtags">> ELSE <<>>)
    IN  fn = "parse_mentions_hashtags" =>
          /\ pc # "returned" => ret = NoRet
          /\ \E k \in 0..Len(requested) : calls = SubSeq(requested, 1, k)
          /\ pc = "returned" =>
               /\ mFail => ret = Err("mentions") /\ calls = <<"mentions">>
               /\ (~mFail /\ hFail) =>
                     ret = Err("hashtags") /\ calls = requested
               /\ (~mFail /\ ~hFail) =>
                     /\ ret.kind = "Ok"
                     /\ mentions_hashtags = ret.rec
                     /\ mentions \/ hashtags => calls = requested
               /\ ret.kind = "Err" =>
                     /\ ret.rec = Default
                     /\ ret.err \in regexFails
                     /\ ret.err = "mentions" => mentions
                     /\ ret.err = "hashtags" => hashtags

\* C9 witness: both passes requested, the hashtag pattern fails after the
\* mention pass has found a mention; the call returns the hashtag error.
C9_Witness ==
    /\ Returned("parse_mentions_hashtags")
    /\ mentions /\ hashtags
    /\ regexFails = {"hashtags"}
    /\ mentions_hashtags.mentions # <<>>
    /\ ret = Err("hashtags")
    /\ calls = <<"mentions", "hashtags">>

\* C10: every returned token, taken alone as input, is extracted as exactly
\* itself, and the returned strings joined with single spaces, in the order
\* returned, are extracted as the same set.
C10_ReextractionStable ==
    \A e \in Extractors :
        ReturnedOk(e.f) =>
            /\ \A s \in Range(ret.vec) : ResultSets(e, s) = {{s}}
            /\ ResultSets(e, JoinSpaces(ret.vec)) = {Range(ret.vec)}

\* C10 witness: an extractor has returned two tokens.
C10_Witness ==
    \E e \in Extractors : ReturnedOk(e.f) /\ Len(ret.vec) >= 2

====
